---- MODULE Spec2Model ----
(***************************************************************************)
(* MTXCast server: the StreamManager command state machine                 *)
(* (stream_manager.py), the MetadataResolver fallback chain (metadata.py)  *)
(* and the WhipEndpoint session lifecycle (webrtc.py), with their callers  *)
(* in api_server.py and app.py.                                            *)
(*                                                                         *)
(* The server runs on one asyncio event loop: code between two awaits is   *)
(* one atomic step.  Every action below is the code of one coroutine from  *)
(* one await to the next.                                                  *)
(*                                                                         *)
(* Encodings: Python None is the string None for optional strings and the  *)
(* number Unset for optional numbers; seconds are integers; a volume is    *)
(* counted in tenths (1.0 is 10).                                          *)
(***************************************************************************)
EXTENDS Integers, Sequences, FiniteSets, TLC

VARIABLES
    status,     \* StreamManager._status
    lock,       \* StreamManager._lock: the task holding it, or None
    waiters,    \* StreamManager._lock: FIFO of tasks waiting in acquire()
    pc,         \* per task: position of its coroutine
    cmd,        \* per task: the StreamManager call it is running
    media,      \* per task: the ResolvedMedia handle_metadata works on
    call,       \* per task: the PlayerTransport call it issued
    result,     \* per task: how its call ended
    rIn,        \* the payload and backend answers of one resolve() call
    rOut,       \* what resolve() produced for rIn
    pcs,        \* WhipEndpoint._pcs: the resource ids in the map
    conn,       \* per resource id: its RTCPeerConnection (none, open, closed)
    closes,     \* per resource id: how often close() was called on it
    ice,        \* the ICE state change whose observer ran in the last step
    hpc,        \* per resource id: position of its handle_offer coroutine
    tpc,        \* per teardown request: position of its _cleanup_peer
    tres,       \* per teardown request: what its _cleanup_peer did
    cleanupLock,    \* WhipEndpoint._cleanup_lock: the request holding it
    cleanupWaiters, \* WhipEndpoint._cleanup_lock: FIFO of waiting requests
    delivered,  \* the (resource id, track) pairs on_track has been run for
    sunk,       \* the (resource id, track) pairs added to a MediaBlackhole
    file,       \* the JSON object in the configuration file, if there is one
    config,     \* the ServerConfig the last load_config returned
    saved,      \* the ServerConfig the last save_config was given
    cstep       \* the last configuration call: none, load or save

smVars == <<status, lock, waiters, pc, cmd, media, call, result>>
rVars == <<rIn, rOut>>
wVars == <<pcs, conn, closes, ice, hpc, tpc, tres, cleanupLock, cleanupWaiters>>

tVars == <<delivered, sunk>>
cVars == <<file, config, saved, cstep>>

vars == <<smVars, rVars, wVars, tVars, cVars>>

None == "<None>"
Unset == -1

\* ------------------------------------------------------------------------
\* Python helpers
\* ------------------------------------------------------------------------

\* Truthiness of an optional string: None and "" are falsy.
Truthy(s) == s # None /\ s # ""

\* a or b or c
Or3(a, b, c) == IF Truthy(a) THEN a ELSE IF Truthy(b) THEN b ELSE c

\* a or b
Or2(a, b) == IF Truthy(a) THEN a ELSE b

\* sub in s
Contains(s, sub) ==
    \E i \in 1..(Len(s) - Len(sub) + 1) : SubSeq(s, i, i + Len(sub) - 1) = sub

\* payload.start_time or 0.0
StartOrZero(s) == IF s = Unset \/ s = 0 THEN 0 ELSE s

\* Path(p).name: what follows the last "/"
RECURSIVE LastSlash(_, _)
LastSlash(p, i) ==
    IF i = 0 THEN 0
    ELSE IF SubSeq(p, i, i) = "/" THEN i ELSE LastSlash(p, i - 1)

PathName(p) == SubSeq(p, LastSlash(p, Len(p)) + 1, Len(p))

\* QUrl.fromLocalFile(str(path.absolute())).toString() for an absolute path
FileUrl(p) == "file://" \o p

\* ------------------------------------------------------------------------
\* MetadataResolver.resolve (metadata.py)
\* ------------------------------------------------------------------------

NoMedia ==
    [playback_url |-> None, title |-> None, start_time |-> 0,
     video_url |-> None, audio_url |-> None, file_path |-> None]

\* self._is_niconico(url)
IsNiconico(url) == Contains(url, "nicovideo.jp") \/ Contains(url, "nico.ms")

\* fmt.get("url") or fmt.get("manifest_url") or fmt.get("fragment_base_url")
FmtUrl(fmt) == Or3(fmt.url, fmt.manifest_url, fmt.fragment_base_url)

\* has_video and not has_audio
IsVideoOnly(fmt) == fmt.vcodec # "none" /\ ~(fmt.acodec # "none")

\* has_audio and not has_video
IsAudioOnly(fmt) == fmt.acodec # "none" /\ ~(fmt.vcodec # "none")

\* The loop over requested_formats: entries without a URL are skipped, a
\* later video-only (audio-only) entry overwrites an earlier one.
RECURSIVE ScanRequested(_, _, _)
ScanRequested(fmts, i, acc) ==
    IF i > Len(fmts) THEN acc
    ELSE LET fmt == fmts[i]
             u == FmtUrl(fmt)
         IN  IF ~Truthy(u) THEN ScanRequested(fmts, i + 1, acc)
             ELSE IF IsVideoOnly(fmt)
                  THEN ScanRequested(fmts, i + 1, [acc EXCEPT !.video_url = u])
             ELSE IF IsAudioOnly(fmt)
                  THEN ScanRequested(fmts, i + 1, [acc EXCEPT !.audio_url = u])
             ELSE ScanRequested(fmts, i + 1, acc)

\* The loop over formats: the first entry with a URL wins (break).
RECURSIVE ScanFormats(_, _)
ScanFormats(fmts, i) ==
    IF i > Len(fmts) THEN None
    ELSE IF Truthy(FmtUrl(fmts[i])) THEN FmtUrl(fmts[i])
    ELSE ScanFormats(fmts, i + 1)

ResolvedTitleBackendFirst(payload, info) == Or2(info.title, payload.title)

\* payload.title or info.get("title")
ResolvedTitle(payload, info) == Or2(payload.title, info.title)

Raised(err) == [ok |-> FALSE, error |-> err, media |-> NoMedia]
Returned(m) == [ok |-> TRUE, error |-> None, media |-> m]

\* The niconico branch of _run: extract_info, then _download_to_temp_file;
\* every exception becomes RuntimeError.
ResolveDownload(payload, info, env) ==
    IF env.extract = "raise" \/ env.download = "raise" THEN Raised("RuntimeError")
    ELSE Returned([playback_url |-> "", title |-> ResolvedTitle(payload, info),
                   start_time |-> StartOrZero(payload.start_time),
                   video_url |-> None, audio_url |-> None,
                   file_path |-> env.download])

\* Entries of the backend's requested_formats and formats lists; a key the
\* backend left out reads as None (dict.get).
VideoOnly == [url |-> "v", manifest_url |-> None, fragment_base_url |-> None,
              vcodec |-> "v1", acodec |-> "none"]
AudioOnly == [url |-> "a", manifest_url |-> None, fragment_base_url |-> None,
              vcodec |-> "none", acodec |-> "a1"]
Combined == [url |-> "c", manifest_url |-> None, fragment_base_url |-> None,
             vcodec |-> "v1", acodec |-> "a1"]
VideoOnlyNoUrl ==
    [url |-> None, manifest_url |-> None, fragment_base_url |-> None,
     vcodec |-> "v1", acodec |-> "none"]
AudioOnlyManifest ==
    [url |-> None, manifest_url |-> "am", fragment_base_url |-> None,
     vcodec |-> "none", acodec |-> "a1"]

FormatSamples ==
    {VideoOnly, AudioOnly, Combined, VideoOnlyNoUrl, AudioOnlyManifest}

\* Longest requested_formats and formats list of the resolver inputs.
MaxFormats == 2

FormatLists == UNION {[1..n -> FormatSamples] : n \in 0..MaxFormats}

\* (url, manifest_url, fragment_base_url) of the info itself
DirectUrls == {<<None, None, None>>, <<"u", None, None>>, <<None, "m", None>>}

\* What ydl.extract_info(url, download=False) returns.
ResolverInfos ==
    { [url |-> d[1], manifest_url |-> d[2], fragment_base_url |-> d[3],
       title |-> None, requested_formats |-> rf, formats |-> fs] :
        d \in DirectUrls, rf \in FormatLists, fs \in FormatLists }

ResolverPayloads ==
    { [source_url |-> "https://example.com/v", start_time |-> Unset,
       title |-> None],
      [source_url |-> "https://www.nicovideo.jp/watch/sm9", start_time |-> 30,
       title |-> None],
      [source_url |-> "https://nico.ms/sm9", start_time |-> Unset,
       title |-> None] }

\* How the backend behaves: extract_info returns or raises, and
\* _download_to_temp_file returns a path or raises.
ResolverEnvs ==
    { [extract |-> "ok", download |-> "/home/u/.mtxcast/downloads/clip.mp4"],
      [extract |-> "ok", download |-> "raise"],
      [extract |-> "raise", download |-> "raise"] }

\* Calls that differ in the caller's title and the backend's title, one
\* info for each variant of the result.
TitledPayloads ==
    { [source_url |-> u, start_time |-> Unset, title |-> ti] :
        u \in {"https://example.com/v", "https://www.nicovideo.jp/watch/sm9"},
        ti \in {None, "T"} }

TitledInfos ==
    { [url |-> d[1], manifest_url |-> None, fragment_base_url |-> None,
       title |-> ti, requested_formats |-> d[2], formats |-> d[3]] :
        d \in { <<None, <<VideoOnly, AudioOnly>>, <<>> >>,
                <<"u", <<>>, <<>> >>,
                <<None, <<>>, <<Combined>> >> },
        ti \in {None, "I"} }

ResolverInputs ==
    [payload : ResolverPayloads, info : ResolverInfos, env : ResolverEnvs]
        \cup [payload : TitledPayloads, info : TitledInfos,
              env : {e \in ResolverEnvs : e.download # "raise"}]

\* A step 2 that takes a lone video-only entry for a pair.
SeparatedPairLoose(info) ==
    LET rf == info.requested_formats
        found == ScanRequested(rf, 1, [video_url |-> None, audio_url |-> None])
    IN  IF Len(rf) >= 2 /\ Truthy(found.video_url)
        THEN [video_url |-> found.video_url,
              audio_url |-> Or2(found.audio_url, found.video_url)]
        ELSE [video_url |-> None, audio_url |-> None]

\* The separated-streams step of _run: the pair when both URLs were found.
SeparatedPair(info) ==
    LET rf == info.requested_formats
        found == ScanRequested(rf, 1, [video_url |-> None, audio_url |-> None])
    IN  IF Len(rf) >= 2 /\ Truthy(found.video_url) /\ Truthy(found.audio_url)
        THEN found
        ELSE [video_url |-> None, audio_url |-> None]

SingleUrlFormatsFirst(info) ==
    LET direct == Or3(info.url, info.manifest_url, info.fragment_base_url)
        scanned == ScanFormats(info.formats, 1)
    IN  IF Truthy(scanned) THEN scanned ELSE direct

\* The single-stream step of _run: info URL, else the formats scan.
SingleUrl(info) ==
    LET direct == Or3(info.url, info.manifest_url, info.fragment_base_url)
    IN  IF Truthy(direct) THEN direct
        ELSE IF Len(info.formats) > 0 THEN ScanFormats(info.formats, 1)
        ELSE direct

\* The streaming branch of _run.
ResolveStream(payload, info, env) ==
    IF env.extract = "raise" THEN Raised("RuntimeError")
    ELSE LET pair == SeparatedPair(info)
             single == SingleUrl(info)
         IN  IF Truthy(pair.video_url)
             THEN Returned([playback_url |-> "",
                            title |-> ResolvedTitle(payload, info),
                            start_time |-> StartOrZero(payload.start_time),
                            video_url |-> pair.video_url,
                            audio_url |-> pair.audio_url,
                            file_path |-> None])
             ELSE IF ~Truthy(single) THEN Raised("RuntimeError")
             ELSE Returned([playback_url |-> single,
                            title |-> ResolvedTitle(payload, info),
                            start_time |-> StartOrZero(payload.start_time),
                            video_url |-> None, audio_url |-> None,
                            file_path |-> None])

ResolveFallsBack(payload, info, env) ==
    IF IsNiconico(payload.source_url) /\ ResolveDownload(payload, info, env).ok
    THEN ResolveDownload(payload, info, env)
    ELSE ResolveStream(payload, info, env)

\* MetadataResolver.resolve: _run on a worker thread.
Resolve(payload, info, env) ==
    IF IsNiconico(payload.source_url)
    THEN ResolveDownload(payload, info, env)
    ELSE ResolveStream(payload, info, env)

\* ------------------------------------------------------------------------
\* StreamManager (stream_manager.py)
\* ------------------------------------------------------------------------

Tasks == {"t1", "t2"}

DefaultVolume == 10
VolumeMin == 0
VolumeMax == 10
WhipTitle == "Live WHIP Stream"

\* class StreamType(Enum)
StreamTypes == {"IDLE", "METADATA", "WHIP"}

InitialStatusUntyped ==
    [stream_type |-> None, title |-> None, is_playing |-> FALSE,
     volume |-> DefaultVolume, position |-> Unset, duration |-> Unset,
     is_seekable |-> FALSE]

\* PlayerStatus()
InitialStatus ==
    [stream_type |-> "IDLE", title |-> None, is_playing |-> FALSE,
     volume |-> DefaultVolume, position |-> Unset, duration |-> Unset,
     is_seekable |-> FALSE]

NoCmd ==
    [op |-> "none", title |-> None, start_time |-> Unset, target |-> None,
     value |-> 0]

\* PlaybackMetrics()
NoMetrics == [position |-> Unset, duration |-> Unset, is_seekable |-> FALSE]

\* A PlayerTransport call as the transport sees it; raised tells whether the
\* transport answered it with an exception, metrics is what get_metrics
\* answered.
NoCall ==
    [op |-> "none", url |-> None, audio_url |-> None, start_time |-> Unset,
     title |-> None, value |-> 0, raised |-> FALSE, metrics |-> NoMetrics]

\* The files present on disk.
ExistingFiles == {"/home/u/.mtxcast/uploads/clip.mp4", "/home/u/.mtxcast/downloads/clip.mp4"}

PathExistsUnchecked(p) == TRUE

\* Path(file_path).exists()
PathExists(p) == p \in ExistingFiles

\* What the callers pass in.
Titles == {None, "T"}
SeekPositions == {0, 30}
RawVolumes == {-5, 15}

\* MetadataPayload bodies of POST /metadata
MetadataPayloads ==
    { [source_url |-> "https://example.com/v", start_time |-> Unset,
       title |-> None],
      [source_url |-> "https://example.com/v", start_time |-> 30,
       title |-> "T"],
      [source_url |-> "https://www.nicovideo.jp/watch/sm9", start_time |-> 30,
       title |-> None],
      [source_url |-> "https://nico.ms/sm9", start_time |-> Unset,
       title |-> "T"] }

\* (file_path, start_time, title) of handle_file calls
FileRequests ==
    { [file_path |-> "/home/u/.mtxcast/uploads/clip.mp4", start_time |-> 0,
       title |-> None],
      [file_path |-> "/home/u/.mtxcast/uploads/clip.mp4", start_time |-> 30,
       title |-> "T"],
      [file_path |-> "/home/u/.mtxcast/uploads/gone.mp4", start_time |-> 30,
       title |-> None] }

\* What PlayerTransport.get_metrics() may answer.
MetricsSamples ==
    { NoMetrics,
      [position |-> 30, duration |-> Unset, is_seekable |-> FALSE],
      [position |-> 30, duration |-> 60, is_seekable |-> TRUE] }

\* What the backend may report to a handle_metadata call.
ManagerInfos ==
    { [url |-> None, manifest_url |-> None, fragment_base_url |-> None,
       title |-> None, requested_formats |-> <<VideoOnly, AudioOnly>>,
       formats |-> <<>>],
      [url |-> "u", manifest_url |-> None, fragment_base_url |-> None,
       title |-> None, requested_formats |-> <<>>, formats |-> <<>>],
      [url |-> None, manifest_url |-> None, fragment_base_url |-> None,
       title |-> None, requested_formats |-> <<>>, formats |-> <<>>] }

ManagerEnvs ==
    { [extract |-> "ok", download |-> "/home/u/.mtxcast/downloads/clip.mp4"],
      [extract |-> "ok", download |-> "/home/u/.mtxcast/downloads/lost.mp4"],
      [extract |-> "ok", download |-> "raise"],
      [extract |-> "raise", download |-> "raise"] }

\* max(0.0, min(volume, 1.0))
Clamp(v) ==
    LET m == IF v < VolumeMax THEN v ELSE VolumeMax
    IN  IF VolumeMin > m THEN VolumeMin ELSE m

LockFreeIgnoresHolder == waiters = <<>>

\* asyncio.Lock.acquire() returns at once when the lock is free and nobody
\* waits for it.
LockFree == lock = None /\ waiters = <<>>

\* A task is at "done" from the moment its StreamManager coroutine returns
\* or raises until its caller has taken the result; no await separates the
\* two, so nothing else runs in between.
Quiet == \A u \in Tasks : pc[u] # "done"

MetadataStatusKeepsDuration(s, title, start) ==
    [stream_type |-> "METADATA", title |-> title, is_playing |-> TRUE,
     volume |-> s.volume, position |-> start, duration |-> s.duration,
     is_seekable |-> TRUE]

\* PlayerStatus(stream_type=METADATA, ...) of handle_metadata and
\* _handle_file_impl
MetadataStatus(s, title, start) ==
    [stream_type |-> "METADATA", title |-> title, is_playing |-> TRUE,
     volume |-> s.volume, position |-> start, duration |-> Unset,
     is_seekable |-> TRUE]

WhipStatusNoPlaceholder(s, title) ==
    [stream_type |-> "WHIP", title |-> title,
     is_playing |-> TRUE, volume |-> s.volume, position |-> Unset,
     duration |-> Unset, is_seekable |-> FALSE]

\* PlayerStatus(stream_type=WHIP, ...) of handle_whip_track
WhipStatus(s, title) ==
    [stream_type |-> "WHIP", title |-> Or2(title, WhipTitle),
     is_playing |-> TRUE, volume |-> s.volume, position |-> Unset,
     duration |-> Unset, is_seekable |-> FALSE]

IdleStatusDefaults(s) == InitialStatus

\* PlayerStatus(stream_type=IDLE, ...) of stop
IdleStatus(s) ==
    [stream_type |-> "IDLE", title |-> None, is_playing |-> FALSE,
     volume |-> s.volume, position |-> Unset, duration |-> Unset,
     is_seekable |-> FALSE]

SeekStatusMovesPosition(s, position) == [s EXCEPT !.position = position]

\* seek: "return self._status" follows the transport call directly
SeekStatus(s, position) == s

\* self._status.volume = volume
VolumeStatus(s, volume) == [s EXCEPT !.volume = volume]

MetricsStatusKeepsSeekable(s, m) ==
    [s EXCEPT !.position = m.position, !.duration = m.duration]

MetricsStatusSkipsIdle(s, m) ==
    IF s.stream_type = "IDLE" THEN s
    ELSE [s EXCEPT !.position = m.position, !.duration = m.duration,
                   !.is_seekable = m.is_seekable]

\* The three assignments of current_status.
MetricsStatus(s, m) ==
    [s EXCEPT !.position = m.position, !.duration = m.duration,
              !.is_seekable = m.is_seekable]

\* The transport call each simple command makes right after taking the lock.
TransportCall(c) ==
    CASE c.op = "handle_whip_track" ->
            [NoCall EXCEPT !.op = "attach_webrtc_track", !.url = c.target]
      [] c.op = "pause" -> [NoCall EXCEPT !.op = "pause"]
      [] c.op = "resume" -> [NoCall EXCEPT !.op = "resume"]
      [] c.op = "seek" -> [NoCall EXCEPT !.op = "seek", !.value = c.value]
      [] c.op = "set_volume" ->
            [NoCall EXCEPT !.op = "set_volume", !.value = c.value]
      [] c.op = "current_status" -> [NoCall EXCEPT !.op = "get_metrics"]
      [] c.op = "stop" -> [NoCall EXCEPT !.op = "stop"]

\* The play_url call of _handle_file_impl.
FilePlayCall(path, start, title) ==
    [NoCall EXCEPT !.op = "play_url", !.url = FileUrl(path),
                   !.start_time = start,
                   !.title = IF Truthy(title) THEN title ELSE PathName(path)]

StreamPlayCallSingleOnly(m) ==
    [NoCall EXCEPT !.op = "play_url", !.url = m.playback_url,
                   !.start_time = m.start_time, !.title = m.title]

\* The transport entry point handle_metadata picks for a streamed result.
StreamPlayCall(m) ==
    IF Truthy(m.video_url) /\ Truthy(m.audio_url)
    THEN [NoCall EXCEPT !.op = "play_separated_streams", !.url = m.video_url,
                        !.audio_url = m.audio_url,
                        !.start_time = m.start_time, !.title = m.title]
    ELSE [NoCall EXCEPT !.op = "play_url", !.url = m.playback_url,
                        !.start_time = m.start_time, !.title = m.title]

LeaveHoldsLockOnError(t, r) ==
    /\ pc' = [pc EXCEPT ![t] = "done"]
    /\ result' = [result EXCEPT ![t] = r]
    /\ media' = [media EXCEPT ![t] = NoMedia]
    /\ lock' = IF r = "ok" THEN None ELSE t

\* The coroutine of task t leaves the manager with outcome r: the lock is
\* released on the way out of "async with self._lock".
Leave(t, r) ==
    /\ pc' = [pc EXCEPT ![t] = "done"]
    /\ result' = [result EXCEPT ![t] = r]
    /\ media' = [media EXCEPT ![t] = NoMedia]
    /\ lock' = None

\* _handle_file_impl from its start to the await of play_url.
FileImpl(t, path, start, title, m) ==
    IF ~PathExists(path)
    THEN /\ Leave(t, "FileNotFoundError")
         /\ UNCHANGED <<status, call>>
    ELSE /\ call' = [call EXCEPT ![t] = FilePlayCall(path, start, title)]
         /\ media' = [media EXCEPT ![t] = m]
         /\ pc' = [pc EXCEPT ![t] = "transport"]
         /\ lock' = t
         /\ UNCHANGED <<status, result>>

\* Task t has the lock and runs the body of its command up to the first
\* await.
Enter(t, c) ==
    IF c.op = "handle_metadata"
    THEN /\ pc' = [pc EXCEPT ![t] = "resolving"]
         /\ lock' = t
         /\ UNCHANGED <<status, media, call, result>>
    ELSE IF c.op = "handle_file"
    THEN FileImpl(t, c.target, c.start_time, c.title, NoMedia)
    ELSE /\ call' = [call EXCEPT ![t] = TransportCall(c)]
         /\ pc' = [pc EXCEPT ![t] = "transport"]
         /\ lock' = t
         /\ UNCHANGED <<status, media, result>>

\* StreamManager call c starts in task t: "async with self._lock" either
\* enters at once or queues the task.
Start(t, c) ==
    /\ Quiet
    /\ pc[t] = "idle"
    /\ cmd' = [cmd EXCEPT ![t] = c]
    /\ IF LockFree
       THEN Enter(t, c) /\ UNCHANGED waiters
       ELSE /\ pc' = [pc EXCEPT ![t] = "wait"]
            /\ waiters' = Append(waiters, t)
            /\ UNCHANGED <<status, lock, media, call, result>>

\* A caller outside the WHIP endpoint starts StreamManager call c in task t.
Invoke(t, c) ==
    /\ Start(t, c)
    /\ UNCHANGED <<rVars, wVars, tVars, cVars>>

\* post_metadata -> StreamManager.handle_metadata
handle_metadata(t) ==
    \E p \in MetadataPayloads :
        Invoke(t, [NoCmd EXCEPT !.op = "handle_metadata",
                                !.target = p.source_url,
                                !.start_time = p.start_time,
                                !.title = p.title])

\* upload_file -> StreamManager.handle_file
handle_file(t) ==
    \E f \in FileRequests :
        Invoke(t, [NoCmd EXCEPT !.op = "handle_file", !.target = f.file_path,
                                !.start_time = f.start_time,
                                !.title = f.title])

\* on_track -> StreamManager.handle_whip_track
handle_whip_track(t) ==
    \E ti \in Titles :
        Invoke(t, [NoCmd EXCEPT !.op = "handle_whip_track", !.title = ti])

\* control_pause, pause_requested -> StreamManager.pause
pause(t) == Invoke(t, [NoCmd EXCEPT !.op = "pause"])

\* control_play, play_requested -> StreamManager.resume
resume(t) == Invoke(t, [NoCmd EXCEPT !.op = "resume"])

\* control_seek, seek_requested -> StreamManager.seek
seek(t) ==
    \E p \in SeekPositions : Invoke(t, [NoCmd EXCEPT !.op = "seek", !.value = p])

\* control_volume -> StreamManager.set_volume: the HTTP handler clamps first
control_volume(t) ==
    \E v \in RawVolumes :
        Invoke(t, [NoCmd EXCEPT !.op = "set_volume", !.value = Clamp(v)])

\* volume_changed -> StreamManager.set_volume: the value goes through as is
volume_changed(t) ==
    \E v \in RawVolumes :
        Invoke(t, [NoCmd EXCEPT !.op = "set_volume", !.value = v])

\* get_status -> StreamManager.current_status
current_status(t) == Invoke(t, [NoCmd EXCEPT !.op = "current_status"])

\* control_stop, stop_requested -> StreamManager.stop
stop(t) == Invoke(t, [NoCmd EXCEPT !.op = "stop"])

\* Lock.release() woke the first waiter: it now owns the lock and runs on.
Wake(t) ==
    /\ Quiet
    /\ pc[t] = "wait"
    /\ lock = None
    /\ waiters # <<>> /\ Head(waiters) = t
    /\ waiters' = Tail(waiters)
    /\ Enter(t, cmd[t])
    /\ UNCHANGED cmd
    /\ UNCHANGED <<rVars, wVars, tVars, cVars>>

\* handle_metadata after "await self._resolver.resolve(payload)": the error
\* leaves the manager, a file result goes to _handle_file_impl, a streamed
\* result to the transport.
ResolveDone(t) ==
    /\ Quiet
    /\ pc[t] = "resolving"
    /\ \E info \in ManagerInfos, env \in ManagerEnvs :
         LET payload == [source_url |-> cmd[t].target, title |-> cmd[t].title,
                         start_time |-> cmd[t].start_time]
             r == Resolve(payload, info, env)
         IN  IF ~r.ok
             THEN /\ Leave(t, r.error)
                  /\ UNCHANGED <<status, call>>
             ELSE IF Truthy(r.media.file_path)
             THEN FileImpl(t, r.media.file_path, r.media.start_time,
                           r.media.title, r.media)
             ELSE /\ call' = [call EXCEPT ![t] = StreamPlayCall(r.media)]
                  /\ media' = [media EXCEPT ![t] = r.media]
                  /\ pc' = [pc EXCEPT ![t] = "transport"]
                  /\ UNCHANGED <<status, lock, result>>
    /\ UNCHANGED <<waiters, cmd>>
    /\ UNCHANGED <<rVars, wVars, tVars, cVars>>

\* The status a command writes once its transport call has returned.
Written(t, m) ==
    LET c == cmd[t]
    IN  CASE c.op = "handle_metadata" ->
                IF Truthy(media[t].file_path)
                THEN MetadataStatus(status, call[t].title, media[t].start_time)
                ELSE MetadataStatus(status, media[t].title, media[t].start_time)
          [] c.op = "handle_file" ->
                MetadataStatus(status, call[t].title, c.start_time)
          [] c.op = "handle_whip_track" -> WhipStatus(status, c.title)
          [] c.op = "pause" -> [status EXCEPT !.is_playing = FALSE]
          [] c.op = "resume" -> [status EXCEPT !.is_playing = TRUE]
          [] c.op = "seek" -> SeekStatus(status, c.value)
          [] c.op = "set_volume" -> VolumeStatus(status, c.value)
          [] c.op = "current_status" -> MetricsStatus(status, m)
          [] c.op = "stop" -> IdleStatus(status)

TransportDoneStatusFirst(t) ==
    /\ Quiet
    /\ pc[t] = "transport"
    /\ \E m \in MetricsSamples :
         /\ cmd[t].op = "current_status" \/ m = NoMetrics
         /\ status' = Written(t, m)
         /\ \/ Leave(t, "ok") /\ call' = [call EXCEPT ![t].metrics = m]
            \/ /\ Leave(t, "TransportError")
               /\ call' = [call EXCEPT ![t].raised = TRUE]
    /\ UNCHANGED <<waiters, cmd>>
    /\ UNCHANGED <<rVars, wVars, tVars, cVars>>

\* The awaited PlayerTransport call of task t returns: the command writes
\* the status and leaves; or it raises: the exception leaves the manager.
TransportDone(t) ==
    /\ Quiet
    /\ pc[t] = "transport"
    /\ \/ \E m \in MetricsSamples :
            /\ cmd[t].op = "current_status" \/ m = NoMetrics
            /\ status' = Written(t, m)
            /\ Leave(t, "ok")
            /\ call' = [call EXCEPT ![t].metrics = m]
       \/ /\ Leave(t, "TransportError")
          /\ call' = [call EXCEPT ![t].raised = TRUE]
          /\ UNCHANGED status
    /\ UNCHANGED <<waiters, cmd>>
    /\ UNCHANGED <<rVars, wVars, tVars, cVars>>

\* The caller takes the outcome of its call.
Return(t) ==
    /\ pc[t] = "done"
    /\ pc' = [pc EXCEPT ![t] = "idle"]
    /\ cmd' = [cmd EXCEPT ![t] = NoCmd]
    /\ call' = [call EXCEPT ![t] = NoCall]
    /\ result' = [result EXCEPT ![t] = "none"]
    /\ UNCHANGED <<status, lock, waiters, media>>
    /\ UNCHANGED <<rVars, wVars, tVars, cVars>>

ManagerInit ==
    /\ status = InitialStatus
    /\ lock = None
    /\ waiters = <<>>
    /\ pc = [t \in Tasks |-> "idle"]
    /\ cmd = [t \in Tasks |-> NoCmd]
    /\ media = [t \in Tasks |-> NoMedia]
    /\ call = [t \in Tasks |-> NoCall]
    /\ result = [t \in Tasks |-> "none"]

\* ------------------------------------------------------------------------
\* WhipEndpoint (webrtc.py)
\* ------------------------------------------------------------------------

\* The resource ids handle_offer generates (uuid4: each one fresh).
Sessions == {1, 2}

\* What asks for a teardown of a session: the except block of handle_offer,
\* the iceconnectionstatechange observer, DELETE on the resource.
Triggers == {"negotiation", "ice", "delete"}

\* A teardown request <<r, k>>: the _cleanup_peer(r) that trigger k started.
\* Each trigger has at most one request on a session in flight.
Requests == Sessions \X Triggers

NoRequest == <<0, "none">>

NoEvent == <<0, "none">>

IceStates == {"checking", "connected", "disconnected", "failed", "closed"}

IceTeardownStatesNoDisconnect == {"failed", "closed"}

\* state in {"failed", "closed", "disconnected"}
IceTeardownStates == {"failed", "closed", "disconnected"}

NegotiationSteps == <<"setRemoteDescription", "createAnswer", "setLocalDescription">>

\* The awaited call that follows a negotiation step, "returned" after the last.
AfterStep(step) ==
    CASE step = "setRemoteDescription" -> "createAnswer"
      [] step = "createAnswer" -> "setLocalDescription"
      [] step = "setLocalDescription" -> "returned"

WhipInit ==
    /\ pcs = {}
    /\ conn = [r \in Sessions |-> "none"]
    /\ closes = [r \in Sessions |-> 0]
    /\ ice = NoEvent
    /\ hpc = [r \in Sessions |-> "none"]
    /\ tpc = [q \in Requests |-> "idle"]
    /\ tres = [q \in Requests |-> "none"]
    /\ cleanupLock = NoRequest
    /\ cleanupWaiters = <<>>
    /\ delivered = {}
    /\ sunk = {}

\* A teardown request is at "done" from the moment _cleanup_peer returns
\* until its caller has resumed; no await separates the two.
WhipQuiet == \A q \in Requests : tpc[q] # "done"

CleanupLockFree == cleanupLock = NoRequest /\ cleanupWaiters = <<>>

CleanupBodyKeepsEntry(q) ==
    IF q[1] \in pcs
    THEN /\ closes' = [closes EXCEPT ![q[1]] = @ + 1]
         /\ cleanupLock' = q
         /\ tpc' = [tpc EXCEPT ![q] = "closing"]
         /\ UNCHANGED <<pcs, tres>>
    ELSE /\ cleanupLock' = NoRequest
         /\ tpc' = [tpc EXCEPT ![q] = "done"]
         /\ tres' = [tres EXCEPT ![q] = "nothing"]
         /\ UNCHANGED <<pcs, closes>>

CleanupBodyPopRaises(q) ==
    IF q[1] \in pcs
    THEN /\ pcs' = pcs \ {q[1]}
         /\ closes' = [closes EXCEPT ![q[1]] = @ + 1]
         /\ cleanupLock' = q
         /\ tpc' = [tpc EXCEPT ![q] = "closing"]
         /\ UNCHANGED tres
    ELSE /\ cleanupLock' = NoRequest
         /\ tpc' = [tpc EXCEPT ![q] = "done"]
         /\ tres' = [tres EXCEPT ![q] = "KeyError"]
         /\ UNCHANGED <<pcs, closes>>

CleanupBodyClearsMap(q) ==
    IF q[1] \in pcs
    THEN /\ pcs' = {}
         /\ closes' = [closes EXCEPT ![q[1]] = @ + 1]
         /\ cleanupLock' = q
         /\ tpc' = [tpc EXCEPT ![q] = "closing"]
         /\ UNCHANGED tres
    ELSE /\ cleanupLock' = NoRequest
         /\ tpc' = [tpc EXCEPT ![q] = "done"]
         /\ tres' = [tres EXCEPT ![q] = "nothing"]
         /\ UNCHANGED <<pcs, closes>>

\* The body of _cleanup_peer once it has the lock, up to "await pc.close()":
\* pop the id; a connection found is closed while the lock is held, with
\* nothing found the lock is released at once.
CleanupBody(q) ==
    IF q[1] \in pcs
    THEN /\ pcs' = pcs \ {q[1]}
         /\ closes' = [closes EXCEPT ![q[1]] = @ + 1]
         /\ cleanupLock' = q
         /\ tpc' = [tpc EXCEPT ![q] = "closing"]
         /\ UNCHANGED tres
    ELSE /\ cleanupLock' = NoRequest
         /\ tpc' = [tpc EXCEPT ![q] = "done"]
         /\ tres' = [tres EXCEPT ![q] = "nothing"]
         /\ UNCHANGED <<pcs, closes>>

\* _cleanup_peer(resource_id) is called for request q: "async with
\* self._cleanup_lock" enters at once or queues the request.
StartCleanup(q) ==
    IF CleanupLockFree
    THEN CleanupBody(q) /\ UNCHANGED cleanupWaiters
    ELSE /\ tpc' = [tpc EXCEPT ![q] = "wait"]
         /\ cleanupWaiters' = Append(cleanupWaiters, q)
         /\ UNCHANGED <<pcs, closes, tres, cleanupLock>>

\* handle_offer up to "await pc.setRemoteDescription(offer)": a fresh id, a
\* new connection, the map entry, the two observers.
handle_offer(r) ==
    /\ WhipQuiet
    /\ hpc[r] = "none"
    /\ \A o \in Sessions : o < r => hpc[o] # "none"
    /\ pcs' = pcs \cup {r}
    /\ conn' = [conn EXCEPT ![r] = "open"]
    /\ hpc' = [hpc EXCEPT ![r] = NegotiationSteps[1]]
    /\ ice' = NoEvent
    /\ UNCHANGED <<closes, tpc, tres, cleanupLock, cleanupWaiters>>
    /\ UNCHANGED <<smVars, rVars, tVars, cVars>>

NegotiateNoCleanup(r) ==
    /\ WhipQuiet
    /\ hpc[r] \in {NegotiationSteps[i] : i \in 1..Len(NegotiationSteps)}
    /\ \/ hpc' = [hpc EXCEPT ![r] = AfterStep(hpc[r])]
       \/ hpc' = [hpc EXCEPT ![r] = "failed"]
    /\ UNCHANGED <<pcs, closes, tpc, tres, cleanupLock, cleanupWaiters>>
    /\ ice' = NoEvent
    /\ UNCHANGED conn
    /\ UNCHANGED <<smVars, rVars, tVars, cVars>>

\* An awaited negotiation call of handle_offer returns, and the next one is
\* awaited (after the last, handle_offer returns the answer and the id); or
\* it raises, and the except block calls _cleanup_peer.
Negotiate(r) ==
    /\ WhipQuiet
    /\ hpc[r] \in {NegotiationSteps[i] : i \in 1..Len(NegotiationSteps)}
    /\ \/ /\ hpc' = [hpc EXCEPT ![r] = AfterStep(hpc[r])]
          /\ UNCHANGED <<pcs, closes, tpc, tres, cleanupLock, cleanupWaiters>>
       \/ /\ hpc' = [hpc EXCEPT ![r] = "cleanup"]
          /\ StartCleanup(<<r, "negotiation">>)
    /\ ice' = NoEvent
    /\ UNCHANGED conn
    /\ UNCHANGED <<smVars, rVars, tVars, cVars>>

\* on_state_change: the observer of session r runs and reads ICE state s
\* from its connection; the teardown states call _cleanup_peer, the others
\* only log.  The observer is a task of its own: it may run while close()
\* is awaited, and the run for the "closed" state that close() reports may
\* come after close() has returned.
IceChange(r, s) ==
    /\ WhipQuiet
    /\ conn[r] # "none"
    /\ ice' = <<r, s>>
    /\ IF s \in IceTeardownStates
       THEN /\ tpc[<<r, "ice">>] = "idle"
            /\ StartCleanup(<<r, "ice">>)
       ELSE UNCHANGED <<pcs, closes, tpc, tres, cleanupLock, cleanupWaiters>>
    /\ UNCHANGED <<conn, hpc>>
    /\ UNCHANGED <<smVars, rVars, tVars, cVars>>

\* delete_whip_resource -> WhipEndpoint.delete_resource(resource_id)
delete_resource(r) ==
    /\ WhipQuiet
    /\ tpc[<<r, "delete">>] = "idle"
    /\ StartCleanup(<<r, "delete">>)
    /\ ice' = NoEvent
    /\ UNCHANGED <<conn, hpc>>
    /\ UNCHANGED <<smVars, rVars, tVars, cVars>>

\* Lock.release() woke the first waiting request: it runs the body.
CleanupWake(q) ==
    /\ WhipQuiet
    /\ tpc[q] = "wait"
    /\ cleanupLock = NoRequest
    /\ cleanupWaiters # <<>> /\ Head(cleanupWaiters) = q
    /\ cleanupWaiters' = Tail(cleanupWaiters)
    /\ CleanupBody(q)
    /\ ice' = NoEvent
    /\ UNCHANGED <<conn, hpc>>
    /\ UNCHANGED <<smVars, rVars, tVars, cVars>>

CloseDoneStopsPlayer(q) ==
    /\ WhipQuiet
    /\ tpc[q] = "closing"
    /\ conn' = [conn EXCEPT ![q[1]] = "closed"]
    /\ cleanupLock' = NoRequest
    /\ tpc' = [tpc EXCEPT ![q] = "done"]
    /\ tres' = [tres EXCEPT ![q] = "closed"]
    /\ ice' = NoEvent
    /\ status' = IdleStatus(status)
    /\ UNCHANGED <<pcs, closes, hpc, cleanupWaiters>>
    /\ UNCHANGED <<lock, waiters, pc, cmd, media, call, result>>
    /\ UNCHANGED <<rVars, tVars, cVars>>

CloseDoneKeepsLock(q) ==
    /\ WhipQuiet
    /\ tpc[q] = "closing"
    /\ conn' = [conn EXCEPT ![q[1]] = "closed"]
    /\ tpc' = [tpc EXCEPT ![q] = "done"]
    /\ tres' = [tres EXCEPT ![q] = "closed"]
    /\ ice' = NoEvent
    /\ UNCHANGED <<pcs, closes, hpc, cleanupLock, cleanupWaiters>>
    /\ UNCHANGED <<smVars, rVars, tVars, cVars>>

\* "await pc.close()" of request q returns: the connection is closed, the
\* lock is released, _cleanup_peer returns.
CloseDone(q) ==
    /\ WhipQuiet
    /\ tpc[q] = "closing"
    /\ conn' = [conn EXCEPT ![q[1]] = "closed"]
    /\ cleanupLock' = NoRequest
    /\ tpc' = [tpc EXCEPT ![q] = "done"]
    /\ tres' = [tres EXCEPT ![q] = "closed"]
    /\ ice' = NoEvent
    /\ UNCHANGED <<pcs, closes, hpc, cleanupWaiters>>
    /\ UNCHANGED <<smVars, rVars, tVars, cVars>>

\* The caller of _cleanup_peer resumes: the observer task and the DELETE
\* handler end, handle_offer raises HTTPException(500).
CleanupReturn(q) ==
    /\ tpc[q] = "done"
    /\ tpc' = [tpc EXCEPT ![q] = "idle"]
    /\ tres' = [tres EXCEPT ![q] = "none"]
    /\ hpc' = IF q[2] = "negotiation" THEN [hpc EXCEPT ![q[1]] = "failed"] ELSE hpc
    /\ ice' = NoEvent
    /\ UNCHANGED <<pcs, conn, closes, cleanupLock, cleanupWaiters>>
    /\ UNCHANGED <<smVars, rVars, tVars, cVars>>

NoResolve == [payload |-> None, info |-> None, env |-> None]
NotRun == [ok |-> FALSE, error |-> "not run", media |-> NoMedia]

ResolverIdle ==
    /\ rIn = NoResolve
    /\ rOut = NotRun

\* StreamManager under two concurrent callers.
\* ------------------------------------------------------------------------
\* ServerConfig (config.py)
\* ------------------------------------------------------------------------

\* A dict with keys from K and values from V.
Dicts(K, V) == UNION {[S -> V] : S \in SUBSET K}

EmptyDict == [k \in {} |-> 0]

\* Keys that are not fields of ServerConfig, and the values they carry.
ExtraKeys == {"theme", "lang"}
ExtraVals == {1, 2}

\* A key that a JSON object does not have.
Missing == "<Missing>"
MissingPort == -1

DefaultHost == "0.0.0.0"
DefaultPort == 8080

\* ServerConfig(): host and port stand for the thirteen plain fields.
DefaultConfig == [host |-> DefaultHost, port |-> DefaultPort, extra |-> EmptyDict]

NoConfig == [host |-> None, port |-> Unset, extra |-> EmptyDict]

\* No configuration file on disk.
NoFile ==
    [exists |-> FALSE, host |-> Missing, port |-> MissingPort,
     hasExtra |-> FALSE, extra |-> EmptyDict, unknown |-> EmptyDict]

\* The JSON objects a configuration file may hold: each plain field present
\* or not, the key "extra" present or not, and keys that are no fields.
\* json.dump and json.load keep strings, integers and nested objects with
\* string keys as they are, so the file is the object itself.
ConfigFiles ==
    { [exists |-> TRUE, host |-> h, port |-> p, hasExtra |-> he,
       extra |-> IF he THEN e ELSE EmptyDict, unknown |-> u] :
        h \in {Missing, DefaultHost, "127.0.0.1"},
        p \in {MissingPort, DefaultPort, 9000},
        he \in BOOLEAN,
        e \in Dicts(ExtraKeys, ExtraVals),
        u \in Dicts(ExtraKeys, ExtraVals) }

\* to_dict: asdict(self), a dict with one key per field, "extra" included.
to_dict(c) ==
    [exists |-> TRUE, host |-> c.host, port |-> c.port,
     hasExtra |-> TRUE, extra |-> c.extra, unknown |-> EmptyDict]

\* from_dict: the keys that are fields ("extra" among them) go to the
\* constructor, absent ones take their defaults; then cfg.extra is
\* replaced by the dict of the keys that are no fields.
from_dict(data) ==
    LET cfg == [host |-> IF data.host = Missing THEN DefaultHost ELSE data.host,
                port |-> IF data.port = MissingPort THEN DefaultPort ELSE data.port,
                extra |-> IF data.hasExtra THEN data.extra ELSE EmptyDict]
        extra == data.unknown
    IN  [cfg EXCEPT !.extra = extra]

\* load_config: without a file the defaults are saved and returned, else
\* the file is read and converted.
load_config ==
    /\ IF ~file.exists
       THEN /\ config' = DefaultConfig
            /\ file' = to_dict(DefaultConfig)
            /\ saved' = DefaultConfig
       ELSE /\ config' = from_dict(file)
            /\ UNCHANGED <<file, saved>>
    /\ cstep' = "load"
    /\ UNCHANGED <<smVars, rVars, wVars, tVars>>

\* save_config(config) for the configuration that was loaded.
save_config ==
    /\ config # NoConfig
    /\ file' = to_dict(config)
    /\ saved' = config
    /\ cstep' = "save"
    /\ UNCHANGED config
    /\ UNCHANGED <<smVars, rVars, wVars, tVars>>

\* The configuration file is not read.
ConfigIdle ==
    /\ file = NoFile
    /\ config = NoConfig
    /\ saved = NoConfig
    /\ cstep = "none"

Init ==
    /\ ManagerInit
    /\ WhipInit
    /\ ResolverIdle
    /\ ConfigIdle

Next ==
    \E t \in Tasks :
        \/ handle_metadata(t)
        \/ handle_file(t)
        \/ handle_whip_track(t)
        \/ pause(t)
        \/ resume(t)
        \/ seek(t)
        \/ control_volume(t)
        \/ volume_changed(t)
        \/ current_status(t)
        \/ stop(t)
        \/ Wake(t)
        \/ ResolveDone(t)
        \/ TransportDone(t)
        \/ Return(t)

Spec == Init /\ [][Next]_vars

\* The tracks a WHIP client sends; the track object is known by its id, and
\* attach_webrtc_track receives it as the call's url.
Tracks == {[kind |-> "video", id |-> "v0"], [kind |-> "audio", id |-> "a0"]}

RoutedAnyKind(track) == TRUE

\* if track.kind == "video"
Routed(track) == track.kind = "video"

\* on_track: the track observer of session r runs in task t for a track its
\* connection received: a video track goes to handle_whip_track (no title),
\* any other is added to the session's MediaBlackhole.
on_track(t, r, track) ==
    /\ Quiet
    /\ conn[r] = "open"
    /\ <<r, track.id>> \notin delivered
    /\ delivered' = delivered \cup {<<r, track.id>>}
    /\ IF Routed(track)
       THEN /\ Start(t, [NoCmd EXCEPT !.op = "handle_whip_track",
                                      !.target = track.id])
            /\ UNCHANGED sunk
       ELSE /\ sunk' = sunk \cup {<<r, track.id>>}
            /\ UNCHANGED smVars
    /\ UNCHANGED <<rVars, wVars, cVars>>

\* Offers and the tracks that arrive on their connections, with a stop.
TrackNext ==
    \/ \E r \in Sessions : handle_offer(r)
    \/ \E t \in Tasks :
          \/ \E r \in Sessions, track \in Tracks : on_track(t, r, track)
          \/ stop(t)
          \/ Wake(t)
          \/ TransportDone(t)
          \/ Return(t)

TrackSpec == Init /\ [][TrackNext]_vars

\* One session from offer to teardown, with the tracks that arrive on its
\* connection and a stop.
LifecycleNext ==
    \/ handle_offer(1)
    \/ Negotiate(1)
    \/ \E s \in IceStates : IceChange(1, s)
    \/ delete_resource(1)
    \/ \E k \in Triggers :
          \/ CleanupWake(<<1, k>>)
          \/ CloseDone(<<1, k>>)
          \/ CleanupReturn(<<1, k>>)
    \/ \E t \in Tasks :
          \/ \E track \in Tracks : on_track(t, 1, track)
          \/ stop(t)
          \/ Wake(t)
          \/ TransportDone(t)
          \/ Return(t)

LifecycleSpec == Init /\ [][LifecycleNext]_vars

\* The event loop runs every task that is ready, and the resolver and the
\* transport answer every call (by returning or by raising).
Fairness ==
    \A t \in Tasks :
        /\ WF_vars(Wake(t))
        /\ WF_vars(ResolveDone(t))
        /\ WF_vars(TransportDone(t))
        /\ WF_vars(Return(t))

\* A handle_metadata racing with stop, current_status and pause.
RaceNext ==
    \E t \in Tasks :
        \/ handle_metadata(t)
        \/ pause(t)
        \/ current_status(t)
        \/ stop(t)
        \/ Wake(t)
        \/ ResolveDone(t)
        \/ TransportDone(t)
        \/ Return(t)

\* StreamManager when every awaited call comes back.
FairSpec == Init /\ [][RaceNext]_vars /\ Fairness

\* One resolve() call on the inputs drawn in ResolverInit.
resolve ==
    /\ rOut = NotRun
    /\ rOut' = Resolve(rIn.payload, rIn.info, rIn.env)
    /\ UNCHANGED rIn
    /\ UNCHANGED <<smVars, wVars, tVars, cVars>>

ResolverInit ==
    /\ ManagerInit
    /\ WhipInit
    /\ rIn \in ResolverInputs
    /\ rOut = NotRun
    /\ ConfigIdle

ResolverNext == resolve

\* MetadataResolver.resolve over the bounded backend answers.
ResolverSpec == ResolverInit /\ [][ResolverNext]_vars

ConfigInit ==
    /\ ManagerInit
    /\ WhipInit
    /\ ResolverIdle
    /\ file \in ConfigFiles \cup {NoFile}
    /\ config = NoConfig
    /\ saved = NoConfig
    /\ cstep = "none"

ConfigNext == load_config \/ save_config

\* load_config and save_config over the bounded configuration files.
ConfigSpec == ConfigInit /\ [][ConfigNext]_vars

\* WhipEndpoint under offers, ICE state changes and DELETE requests.
WhipNext ==
    \/ \E r \in Sessions :
          \/ handle_offer(r)
          \/ Negotiate(r)
          \/ \E s \in IceStates : IceChange(r, s)
          \/ delete_resource(r)
    \/ \E q \in Requests :
          \/ CleanupWake(q)
          \/ CloseDone(q)
          \/ CleanupReturn(q)

WhipSpec == Init /\ [][WhipNext]_vars

\* The event loop runs every teardown request that is ready, and
\* "await pc.close()" returns.
WhipFairness ==
    \A q \in Requests :
        /\ WF_vars(CleanupWake(q))
        /\ WF_vars(CloseDone(q))
        /\ WF_vars(CleanupReturn(q))

\* Teardown requests of the ICE observers and of DELETE on negotiated
\* sessions.
TeardownNext ==
    \/ \E r \in Sessions :
          \/ handle_offer(r)
          \/ \E s \in IceStates : IceChange(r, s)
          \/ delete_resource(r)
    \/ \E q \in Requests :
          \/ CleanupWake(q)
          \/ CloseDone(q)
          \/ CleanupReturn(q)

\* WhipEndpoint when every close() comes back.
WhipFairSpec == Init /\ [][TeardownNext]_vars /\ WhipFairness

\* ------------------------------------------------------------------------
\* Properties of StreamManager
\* ------------------------------------------------------------------------

InCritical(t) == pc[t] \in {"resolving", "transport"}

PlayOps == {"play_url", "play_separated_streams", "attach_webrtc_track"}
SourceOps == {"handle_metadata", "handle_file", "handle_whip_track"}

\* C1: at most one StreamManager command is inside its critical section at
\* any time and that command is the lock holder; so while one call has its
\* transport call issued and its status not yet written, no other call is
\* in the resolver or the transport.
C1_CommandsNeverInterleave ==
    /\ \A t, u \in Tasks : InCritical(t) /\ InCritical(u) => t = u
    /\ \A t \in Tasks : InCritical(t) => lock = t
    /\ \A t, u \in Tasks :
         (t # u /\ pc[t] = "transport" /\ call[t].op # "none")
            => (pc[u] \in {"idle", "wait"} /\ call[u].op = "none")

\* Two handle_metadata calls overlap: one awaits its transport call, the
\* other is queued on the lock.
C1_Witness ==
    \E t, u \in Tasks :
        /\ t # u
        /\ cmd[t].op = "handle_metadata" /\ pc[t] = "transport"
        /\ cmd[u].op = "handle_metadata" /\ pc[u] = "wait"

\* C2: after set_volume(v) has succeeded the stored volume and the value
\* forwarded to the transport are clamp(v, 0.0, 1.0), and the stored volume
\* is within [0.0, 1.0] in every reachable state.
C2_VolumeClamped ==
    /\ status.volume >= 0 /\ status.volume <= 10
    /\ \A t \in Tasks :
         (pc[t] = "done" /\ cmd[t].op = "set_volume" /\ result[t] = "ok")
            => LET v == cmd[t].value
                   clamped == IF v < 0 THEN 0 ELSE IF v > 10 THEN 10 ELSE v
               IN  status.volume = clamped /\ call[t].value = clamped

\* C3: the step that completes a successful stop leaves the status IDLE, not
\* playing, with title, position and duration unset, not seekable, and with
\* the volume it had before; and the volume does not change while the stop
\* holds the lock.
C3_StopResetsKeepingVolume ==
    [][\A t \in Tasks :
         /\ (cmd[t].op = "stop" /\ pc[t] = "transport" /\ pc'[t] = "done"
                /\ result'[t] = "ok")
              => status' = [stream_type |-> "IDLE", title |-> None,
                            is_playing |-> FALSE, volume |-> status.volume,
                            position |-> Unset, duration |-> Unset,
                            is_seekable |-> FALSE]
         /\ (cmd[t].op = "stop" /\ pc[t] = "transport" /\ pc'[t] = "transport")
              => status' = status]_vars

\* A stop has succeeded on a status whose volume is not the default.
C3_Witness ==
    \E t \in Tasks :
        /\ pc[t] = "done" /\ cmd[t].op = "stop" /\ result[t] = "ok"
        /\ status.stream_type = "IDLE" /\ status.volume = 0

\* C4: a handle_file call whose path does not exist ends with
\* FileNotFoundError in the step that starts its body, has issued no
\* transport call, and that step leaves the status as it was.
C4_MissingFileLeavesStatus ==
    [][\A t \in Tasks :
         (/\ cmd'[t].op = "handle_file"
          /\ cmd'[t].target \notin ExistingFiles
          /\ pc'[t] \notin {"idle", "wait"})
            => /\ pc'[t] = "done"
               /\ result'[t] = "FileNotFoundError"
               /\ call'[t].op = "none"
               /\ status' = status]_vars

\* handle_file failed with FileNotFoundError while a stream was playing.
C4_Witness ==
    \E t \in Tasks :
        /\ pc[t] = "done" /\ cmd[t].op = "handle_file"
        /\ result[t] = "FileNotFoundError"
        /\ status.stream_type = "WHIP" /\ status.is_playing

\* C5: a handle_metadata, handle_file or handle_whip_track call reports
\* success only when its play/attach call was issued and returned; when it
\* ends in an error the step that ends it leaves the status as it was; and
\* the status does not change while the call is inside the manager.
C5_FailedSourceLeavesStatus ==
    [][\A t \in Tasks :
         /\ (cmd'[t].op \in SourceOps /\ pc'[t] = "done" /\ result'[t] = "ok")
              => (call'[t].op \in PlayOps /\ ~call'[t].raised)
         /\ (cmd[t].op \in SourceOps /\ pc[t] # "done" /\ pc'[t] = "done"
                /\ result'[t] # "ok")
              => status' = status
         /\ (cmd[t].op \in SourceOps /\ InCritical(t) /\ pc'[t] # "done")
              => status' = status]_vars

\* The transport rejected the play call of a handle_metadata while another
\* stream was playing; and a resolver failure reached the caller.
C5_Witness ==
    \E t \in Tasks :
        /\ pc[t] = "done" /\ cmd[t].op = "handle_metadata"
        /\ call[t].op = "play_separated_streams" /\ call[t].raised
        /\ result[t] = "TransportError"
        /\ status.stream_type = "WHIP" /\ status.is_playing

\* The status as a successful handle_metadata or handle_file leaves it.
JustPlayed ==
    /\ status.stream_type = "METADATA"
    /\ status.is_playing
    /\ status.is_seekable
    /\ status.duration = Unset
    /\ status.position # Unset

\* C11 as stated: a current_status that follows handle_metadata with start
\* time s, and whose metrics report position s, leaves position s and
\* is_seekable true.
C11_RefreshKeepsSeekable ==
    [][\A t \in Tasks :
         (/\ cmd[t].op = "current_status"
          /\ pc[t] = "transport" /\ pc'[t] = "done" /\ result'[t] = "ok"
          /\ JustPlayed
          /\ call'[t].metrics.position = status.position)
            => /\ status'.position = status.position
               /\ status'.is_seekable = TRUE]_vars

\* C11: a current_status that follows handle_metadata with start time s,
\* and whose metrics report position s, leaves position s and is_seekable
\* equal to the is_seekable of the metrics: true only when the transport
\* reports the stream as seekable.
C11_RefreshTakesMetrics ==
    [][\A t \in Tasks :
         (/\ cmd[t].op = "current_status"
          /\ pc[t] = "transport" /\ pc'[t] = "done" /\ result'[t] = "ok"
          /\ JustPlayed
          /\ call'[t].metrics.position = status.position)
            => /\ status'.position = status.position
               /\ status'.is_seekable = call'[t].metrics.is_seekable]_vars

\* A current_status has refreshed a playing METADATA stream from metrics
\* that report position 30 and not seekable.
C11_Witness ==
    \E t \in Tasks :
        /\ pc[t] = "done" /\ cmd[t].op = "current_status" /\ result[t] = "ok"
        /\ call[t].metrics.position = 30 /\ ~call[t].metrics.is_seekable
        /\ status.stream_type = "METADATA" /\ status.is_playing
        /\ status.position = 30 /\ status.duration = Unset
        /\ ~status.is_seekable

\* C12: the reported stream_type is IDLE initially and is one of IDLE,
\* METADATA, WHIP in every reachable state, also while commands are in
\* flight and after a command has failed.
C12_StreamTypeIsOneOfThree ==
    /\ status.stream_type = "IDLE"
    /\ [](status.stream_type \in {"IDLE", "METADATA", "WHIP"})

\* A command has failed while another waits for the lock, with a stream
\* playing.
C12_Witness ==
    \E t, u \in Tasks :
        /\ pc[t] = "done" /\ result[t] = "TransportError"
        /\ pc[u] = "wait"
        /\ status.stream_type = "METADATA"

\* C13: the step that completes a successful handle_metadata or handle_file
\* with start time s (0 when none was given) writes a status with
\* stream_type METADATA, is_playing true, position s, duration unset,
\* is_seekable true, the title that went to the transport (the supplied one
\* when one was supplied) and the volume from before the command; the
\* volume does not change while the command holds the lock.
C13_PlaySetsMetadataStatus ==
    [][\A t \in Tasks :
         /\ (/\ cmd[t].op \in {"handle_metadata", "handle_file"}
             /\ pc[t] = "transport" /\ pc'[t] = "done" /\ result'[t] = "ok")
              => /\ status' =
                      [stream_type |-> "METADATA", title |-> call[t].title,
                       is_playing |-> TRUE, volume |-> status.volume,
                       position |-> IF cmd[t].start_time = Unset THEN 0
                                    ELSE cmd[t].start_time,
                       duration |-> Unset, is_seekable |-> TRUE]
                 /\ cmd[t].title \notin {None, ""}
                      => status'.title = cmd[t].title
         /\ (/\ cmd[t].op \in {"handle_metadata", "handle_file"}
             /\ pc[t] \in {"resolving", "transport"} /\ pc'[t] # "done")
              => status'.volume = status.volume]_vars

\* A handle_metadata of the separated-stream variant with start time 30 has
\* succeeded on a status whose volume is not the default.
C13_Witness ==
    \E t \in Tasks :
        /\ pc[t] = "done" /\ cmd[t].op = "handle_metadata"
        /\ result[t] = "ok" /\ call[t].op = "play_separated_streams"
        /\ cmd[t].start_time = 30
        /\ status.stream_type = "METADATA" /\ status.position = 30
        /\ status.duration = Unset /\ status.volume = 0

\* C14: the step that completes a successful handle_whip_track writes a
\* status with stream_type WHIP, the supplied title or "Live WHIP Stream"
\* when none was supplied, is_playing true, position and duration unset,
\* is_seekable false and the volume from before the command; the volume
\* does not change while the command holds the lock.
C14_WhipTrackSetsWhipStatus ==
    [][\A t \in Tasks :
         /\ (/\ cmd[t].op = "handle_whip_track"
             /\ pc[t] = "transport" /\ pc'[t] = "done" /\ result'[t] = "ok")
              => status' =
                   [stream_type |-> "WHIP",
                    title |-> IF cmd[t].title \in {None, ""}
                              THEN "Live WHIP Stream" ELSE cmd[t].title,
                    is_playing |-> TRUE, volume |-> status.volume,
                    position |-> Unset, duration |-> Unset,
                    is_seekable |-> FALSE]
         /\ (/\ cmd[t].op = "handle_whip_track"
             /\ pc[t] = "transport" /\ pc'[t] # "done")
              => status'.volume = status.volume]_vars

\* A handle_whip_track without a title has succeeded on a status whose
\* volume is not the default.
C14_Witness ==
    \E t \in Tasks :
        /\ pc[t] = "done" /\ cmd[t].op = "handle_whip_track"
        /\ result[t] = "ok" /\ cmd[t].title = None
        /\ call[t].op = "attach_webrtc_track"
        /\ status.stream_type = "WHIP"
        /\ status.title = "Live WHIP Stream"
        /\ status.volume = 0

\* C15: every resume (play) and pause issues its transport call as soon as
\* it has the lock, whatever is_playing is; the step in which that call
\* returns sets is_playing to true for resume and to false for pause and
\* changes no other field; when the call raises, and while it is awaited,
\* the status stays as it was.
C15_PlayPauseAfterTransport ==
    [][\A t \in Tasks :
         /\ (/\ cmd'[t].op \in {"pause", "resume"}
             /\ pc[t] \in {"idle", "wait"} /\ pc'[t] \notin {"idle", "wait"})
              => /\ pc'[t] = "transport"
                 /\ call'[t].op = cmd'[t].op
                 /\ status' = status
         /\ (/\ cmd[t].op \in {"pause", "resume"}
             /\ pc[t] = "transport" /\ pc'[t] = "done" /\ result'[t] = "ok")
              => /\ status' =
                      [status EXCEPT !.is_playing = (cmd[t].op = "resume")]
                 /\ ~call'[t].raised
         /\ (/\ cmd[t].op \in {"pause", "resume"}
             /\ pc[t] = "transport" /\ pc'[t] = "done" /\ result'[t] # "ok")
              => status' = status /\ call'[t].raised
         /\ (/\ cmd[t].op \in {"pause", "resume"}
             /\ pc[t] = "transport" /\ pc'[t] = "transport")
              => status' = status]_vars

\* A resume has its transport call in flight while the status already says
\* playing.
C15_Witness ==
    \E t \in Tasks :
        /\ pc[t] = "transport" /\ cmd[t].op = "resume"
        /\ call[t].op = "resume"
        /\ status.stream_type = "METADATA" /\ status.is_playing

\* C16: seek(position) issues one seek call with that position to the
\* transport when it has the lock, issues nothing else, and no step of it
\* changes any field of the status, whether the call returns or raises; the
\* status it returns is the stored one, with the current stream_type.
C16_SeekLeavesStatus ==
    [][\A t \in Tasks :
         /\ (/\ cmd'[t].op = "seek"
             /\ pc[t] \in {"idle", "wait"} /\ pc'[t] \notin {"idle", "wait"})
              => /\ pc'[t] = "transport"
                 /\ call'[t].op = "seek"
                 /\ call'[t].value = cmd'[t].value
                 /\ status' = status
         /\ (cmd[t].op = "seek" /\ pc[t] = "transport")
              => /\ status' = status
                 /\ call'[t].op = "seek"
                 /\ call'[t].value = cmd[t].value
                 /\ pc'[t] \in {"transport", "done"}]_vars

\* seek(30) has succeeded on a METADATA stream whose position is still 0.
C16_Witness ==
    \E t \in Tasks :
        /\ pc[t] = "done" /\ cmd[t].op = "seek" /\ cmd[t].value = 30
        /\ result[t] = "ok" /\ call[t].op = "seek" /\ call[t].value = 30
        /\ status.stream_type = "METADATA" /\ status.position = 0

\* C17: the step that completes a successful current_status sets position,
\* duration and is_seekable to the values get_metrics answered and leaves
\* stream_type, title, is_playing and volume as they were, whatever the
\* stream type is; the status does not change while the query is awaited.
C17_StatusRefreshFrame ==
    [][\A t \in Tasks :
         /\ (/\ cmd[t].op = "current_status"
             /\ pc[t] = "transport" /\ pc'[t] = "done" /\ result'[t] = "ok")
              => status' =
                   [stream_type |-> status.stream_type,
                    title |-> status.title,
                    is_playing |-> status.is_playing,
                    volume |-> status.volume,
                    position |-> call'[t].metrics.position,
                    duration |-> call'[t].metrics.duration,
                    is_seekable |-> call'[t].metrics.is_seekable]
         /\ (/\ cmd[t].op = "current_status"
             /\ pc[t] = "transport" /\ pc'[t] = "transport")
              => status' = status]_vars

\* A current_status has refreshed an IDLE status from metrics that report
\* position 30, duration 60, seekable.
C17_Witness ==
    \E t \in Tasks :
        /\ pc[t] = "done" /\ cmd[t].op = "current_status" /\ result[t] = "ok"
        /\ call[t].metrics.duration = 60
        /\ status.stream_type = "IDLE" /\ ~status.is_playing
        /\ status.position = 30 /\ status.duration = 60 /\ status.is_seekable

\* C18: while a handle_metadata is in the resolver (or in the transport),
\* every other command that was issued is queued on the lock with no
\* transport call issued, and no step changes the status; a command queued
\* behind a resolving handle_metadata then gets to run and finishes; a stop
\* that finished successfully leaves the stream IDLE.
C18_QueuedBehindResolution ==
    /\ [][\A t, u \in Tasks :
            (/\ t # u
             /\ cmd[t].op = "handle_metadata"
             /\ pc[t] \in {"resolving", "transport"}
             /\ pc'[t] # "done")
               => /\ pc'[u] \in {"idle", "wait"}
                  /\ call'[u].op = "none"
                  /\ status' = status]_vars
    /\ \A t, u \in Tasks :
          (/\ t # u
           /\ cmd[t].op = "handle_metadata" /\ pc[t] = "resolving"
           /\ pc[u] = "wait")
             ~> (/\ pc[u] = "done"
                 /\ pc[t] \in {"idle", "wait"}
                 /\ (cmd[u].op = "stop" /\ result[u] = "ok")
                       => status.stream_type = "IDLE")

\* A stop is queued on the lock while a handle_metadata resolves, with a
\* stream playing.
C18_Witness ==
    \E t, u \in Tasks :
        /\ cmd[t].op = "handle_metadata" /\ pc[t] = "resolving"
        /\ cmd[u].op = "stop" /\ pc[u] = "wait"
        /\ call[u].op = "none"
        /\ status.stream_type = "METADATA"

\* C19 as stated: metadata resolution does not block status queries, that
\* is, a current_status issued while a handle_metadata is in the resolver
\* goes on to its metrics query without waiting for the resolution.
C19_StatusQueryNotBlocked ==
    [][\A t, u \in Tasks :
         (/\ t # u
          /\ cmd[t].op = "handle_metadata" /\ pc[t] = "resolving"
          /\ pc[u] = "idle" /\ cmd'[u].op = "current_status")
            => pc'[u] = "transport"]_vars

\* C19: a current_status issued while a handle_metadata is in the resolver
\* is queued on the manager lock: it has issued no metrics query and has no
\* result for as long as the resolution is in progress.
C19_StatusQueryWaitsForResolution ==
    \A t, u \in Tasks :
        (/\ t # u
         /\ cmd[t].op = "handle_metadata" /\ pc[t] = "resolving"
         /\ cmd[u].op = "current_status")
           => /\ pc[u] = "wait"
              /\ call[u].op = "none"
              /\ result[u] = "none"
              /\ lock = t

\* A current_status is queued on the lock while a handle_metadata resolves.
C19_Witness ==
    \E t, u \in Tasks :
        /\ cmd[t].op = "handle_metadata" /\ pc[t] = "resolving"
        /\ cmd[u].op = "current_status" /\ pc[u] = "wait"
        /\ waiters = <<u>>

\* C24: when the resolver has answered a handle_metadata, the task still
\* holds the lock and never queues for it again; it either fails (resolver
\* error or FileNotFoundError, no transport call, status untouched) or
\* issues one play call chosen by the resolved variant: for a file variant
\* the path exists and play_url gets its file:// locator, the start time and
\* the title (the file name when there is none), as handle_file would; for
\* a dual-URL variant play_separated_streams gets both URLs; otherwise
\* play_url gets the playback URL; and the call is not replaced before the
\* command ends.
C24_PlayEntryPointByVariant ==
    [][\A t \in Tasks :
         /\ (cmd[t].op = "handle_metadata" /\ pc[t] = "resolving"
                /\ pc'[t] # "resolving")
              => /\ lock = t
                 /\ pc'[t] \in {"transport", "done"}
                 /\ pc'[t] = "transport" => lock' = t
                 /\ pc'[t] = "done"
                      => /\ result'[t] \in {"RuntimeError", "FileNotFoundError"}
                         /\ call'[t].op = "none"
                         /\ status' = status
                 /\ pc'[t] = "transport" =>
                      LET m == media'[t]
                          c == call'[t]
                          Set(u) == u # None /\ u # ""
                      IN  /\ c.start_time = m.start_time
                          /\ IF Set(m.file_path)
                             THEN /\ m.file_path =
                                       "/home/u/.mtxcast/downloads/clip.mp4"
                                  /\ c.op = "play_url"
                                  /\ c.url =
                                       "file:///home/u/.mtxcast/downloads/clip.mp4"
                                  /\ c.title = IF Set(m.title) THEN m.title
                                               ELSE "clip.mp4"
                             ELSE IF Set(m.video_url) /\ Set(m.audio_url)
                             THEN /\ c.op = "play_separated_streams"
                                  /\ c.url = m.video_url
                                  /\ c.audio_url = m.audio_url
                                  /\ c.title = m.title
                             ELSE /\ c.op = "play_url"
                                  /\ c.url = m.playback_url
                                  /\ Set(m.playback_url)
                                  /\ c.title = m.title
         /\ (cmd[t].op = "handle_metadata" /\ pc[t] = "transport")
              => /\ pc'[t] \in {"transport", "done"}
                 /\ call'[t].op = call[t].op /\ call'[t].url = call[t].url
                 /\ (pc'[t] = "done" /\ result'[t] = "ok")
                      => call[t].op \in {"play_url", "play_separated_streams"}]_vars

\* A handle_metadata whose resolver answered with a downloaded file awaits
\* play_url on the file locator, holding the lock, with another command
\* queued behind it.
C24_Witness ==
    \E t, u \in Tasks :
        /\ cmd[t].op = "handle_metadata" /\ pc[t] = "transport"
        /\ media[t].file_path = "/home/u/.mtxcast/downloads/clip.mp4"
        /\ call[t].op = "play_url"
        /\ call[t].url = "file:///home/u/.mtxcast/downloads/clip.mp4"
        /\ lock = t /\ pc[u] = "wait"

\* C29: the lock is released on every exit path of every command: it is
\* held only by a task that is inside the resolver or the transport, and a
\* task that has left, with an error or not, has left it free; a command
\* queued when another command has just failed, and every command issued
\* at any time, gets to the end of its critical section.
C29_FailureReleasesLock ==
    /\ [](lock # None => pc[lock] \in {"resolving", "transport"})
    /\ [](\A t \in Tasks : pc[t] = "done" => lock = None)
    /\ \A t, u \in Tasks :
          (/\ t # u
           /\ pc[t] = "done" /\ result[t] \notin {"ok", "none"}
           /\ pc[u] = "wait")
             ~> (pc[u] = "done")
    /\ \A u \in Tasks :
          (pc[u] \in {"wait", "resolving", "transport"}) ~> (pc[u] = "done")

\* A handle_metadata has just failed in the resolver while a stop waits for
\* the lock, which is free again.
C29_Witness ==
    \E t, u \in Tasks :
        /\ cmd[t].op = "handle_metadata" /\ pc[t] = "done"
        /\ result[t] \notin {"ok", "none", "TransportError"}
        /\ cmd[u].op = "stop" /\ pc[u] = "wait"
        /\ lock = None

\* C33: in every reachable state of StreamManager a status of IDLE is not
\* playing, also after a resume issued while idle or after a stop.
C33_IdleIsNotPlaying ==
    status.stream_type = "IDLE" => ~status.is_playing

\* C34: in every reachable state whose status is WHIP the stream is not
\* seekable and position and duration are unset, also after current_status
\* refreshes while the live stream is active.
C34_WhipHasNoTimeline ==
    status.stream_type = "WHIP"
       => /\ ~status.is_seekable
          /\ status.position = Unset
          /\ status.duration = Unset

\* ------------------------------------------------------------------------
\* Properties of WhipEndpoint
\* ------------------------------------------------------------------------

\* C6: when handle_offer has failed (its negotiation raised at some step and
\* it raised the HTTP 500 in turn) its resource id is not in the map and its
\* connection has been closed; and an offer whose negotiation raised is in
\* its teardown until it fails, it never returns an answer.
C6_FailedOfferLeavesNoSession ==
    \A r \in Sessions :
        /\ hpc[r] = "failed" => (r \notin pcs /\ conn[r] = "closed")
        /\ hpc[r] = "cleanup" => tpc[<<r, "negotiation">>] # "idle"

\* An offer failed, its connection was closed once, and the other session
\* is still negotiating.
C6_Witness ==
    \E r, o \in Sessions :
        /\ hpc[r] = "failed" /\ closes[r] = 1
        /\ o # r /\ o \in pcs /\ hpc[o] = "createAnswer"

\* C7: close() is called at most once on the connection of a session; a
\* session that has left the map has had close() called exactly once, and
\* unless that close is still awaited its connection is closed.
C7_CloseExactlyOnce ==
    \A r \in Sessions :
        /\ closes[r] <= 1
        /\ conn[r] = "closed" => closes[r] = 1
        /\ (conn[r] # "none" /\ r \notin pcs) => closes[r] = 1
        /\ (conn[r] # "none" /\ r \notin pcs
               /\ \A q \in Requests : q[1] = r => tpc[q] # "closing")
             => conn[r] = "closed"

\* The three teardown triggers race on one session: the observer's request
\* awaits close(), the DELETE and the failed negotiation are queued.
C7_Witness ==
    \E r \in Sessions :
        /\ tpc[<<r, "ice">>] = "closing" /\ closes[r] = 1
        /\ tpc[<<r, "delete">>] = "wait"
        /\ tpc[<<r, "negotiation">>] = "wait"

\* C8: a delete_resource whose id is not in the map when its _cleanup_peer
\* body runs returns normally without having closed anything, and the step
\* leaves the map, the close counts and the connections as they were.
C8_DeleteAbsentIsNoop ==
    [][\A q \in Requests :
         (/\ q[2] = "delete"
          /\ tpc[q] \in {"idle", "wait"}
          /\ tpc'[q] \notin {"idle", "wait"}
          /\ q[1] \notin pcs)
            => /\ tpc'[q] = "done"
               /\ tres'[q] = "nothing"
               /\ pcs' = pcs /\ closes' = closes /\ conn' = conn]_vars

\* A DELETE on a session that was already torn down has returned as a no-op
\* while the other session is still in the map.
C8_Witness ==
    \E r, o \in Sessions :
        /\ tpc[<<r, "delete">>] = "done"
        /\ tres[<<r, "delete">>] = "nothing"
        /\ conn[r] = "closed" /\ closes[r] = 1
        /\ o # r /\ o \in pcs /\ conn[o] = "open"

\* C9 as claimed: a delete_resource that references a session closed before
\* fails with NotFoundError.
C9_ClosedIdFailsNotFound ==
    \A q \in Requests :
        (/\ q[2] = "delete"
         /\ tpc[q] = "done"
         /\ conn[q[1]] = "closed"
         /\ tres[q] # "closed")
           => tres[q] = "NotFoundError"

\* C9 as amended: a closed session stays closed, never re-enters the map,
\* has no further close() called on it, and a delete_resource that
\* references it returns normally as a no-op.
C9_ClosedIsTerminal ==
    [][\A r \in Sessions :
         conn[r] = "closed"
            => /\ conn'[r] = "closed"
               /\ r \notin pcs'
               /\ closes'[r] = closes[r]
               /\ \A q \in Requests :
                     (q[1] = r /\ q[2] = "delete" /\ tpc'[q] = "done")
                        => tres'[q] = "nothing"]_vars

\* A session that had answered its offer was closed, and a later DELETE on
\* its id has returned.
C9_Witness ==
    \E r \in Sessions :
        /\ hpc[r] = "returned" /\ conn[r] = "closed"
        /\ tpc[<<r, "delete">>] = "done"
        /\ tres[<<r, "delete">>] = "nothing"

\* ------------------------------------------------------------------------
\* Properties of MetadataResolver
\* ------------------------------------------------------------------------

\* C10: resolve yields a separated-stream (dual-URL) result only when the
\* backend's requested_formats hold a video-only entry and an audio-only
\* entry that each expose a URL.  And when the fallback chain runs (source
\* not download-required, extraction returned), the info has no URL of its
\* own, no such pair is present and every formats entry that exposes a URL
\* is video-only, resolve returns the single-URL result whose playback_url
\* is the URL of the first such entry, with video_url and audio_url unset.
C10_SeparatedOnlyFromPair ==
    rOut # NotRun =>
        LET info == rIn.info
            rf == info.requested_formats
            fs == info.formats
            url == rIn.payload.source_url
            m == rOut.media
            Set(u) == u # None /\ u # ""
            EntryUrl(f) ==
                IF Set(f.url) THEN f.url
                ELSE IF Set(f.manifest_url) THEN f.manifest_url
                ELSE f.fragment_base_url
            HasUrl(f) == Set(EntryUrl(f))
            VideoEntry(f) == f.vcodec # "none" /\ f.acodec = "none"
            AudioEntry(f) == f.acodec # "none" /\ f.vcodec = "none"
            PairPresent ==
                /\ \E i \in DOMAIN rf : VideoEntry(rf[i]) /\ HasUrl(rf[i])
                /\ \E j \in DOMAIN rf : AudioEntry(rf[j]) /\ HasUrl(rf[j])
            ChainRuns ==
                /\ ~Contains(url, "nicovideo.jp")
                /\ ~Contains(url, "nico.ms")
                /\ rIn.env.extract = "ok"
            OnlyPartial ==
                /\ ~Set(info.url)
                /\ ~Set(info.manifest_url)
                /\ ~Set(info.fragment_base_url)
                /\ ~PairPresent
                /\ \E i \in DOMAIN fs : HasUrl(fs[i])
                /\ \A i \in DOMAIN fs : HasUrl(fs[i]) => VideoEntry(fs[i])
            First ==
                CHOOSE i \in DOMAIN fs :
                    HasUrl(fs[i]) /\ \A j \in 1..(i - 1) : ~HasUrl(fs[j])
        IN  /\ (rOut.ok /\ (m.video_url # None \/ m.audio_url # None))
                => PairPresent
            /\ (ChainRuns /\ OnlyPartial)
                => /\ rOut.ok
                   /\ m.playback_url = EntryUrl(fs[First])
                   /\ m.video_url = None
                   /\ m.audio_url = None
                   /\ m.file_path = None

\* formats = [{url: "v", vcodec: "v1", acodec: "none"}] alone resolved to
\* the single URL "v".
C10_Witness ==
    /\ rOut.ok
    /\ rIn.payload.source_url = "https://example.com/v"
    /\ rIn.info.requested_formats = <<>>
    /\ rIn.info.formats =
         <<[url |-> "v", manifest_url |-> None, fragment_base_url |-> None,
            vcodec |-> "v1", acodec |-> "none"]>>
    /\ rIn.info.url = None /\ rIn.info.manifest_url = None
    /\ rOut.media.playback_url = "v"
    /\ rOut.media.video_url = None
    /\ rOut.media.audio_url = None

\* C20: every change of the active-session map is made under the teardown
\* lock: a removal is made by the request that holds the lock, and no id is
\* inserted or removed while a request is inside the teardown critical
\* section.
C20_MapMutatedUnderLock ==
    [][/\ (pcs' # pcs) => cleanupLock = NoRequest
       /\ \A r \in pcs \ pcs' :
            \E q \in Requests :
                q[1] = r /\ cleanupLock' = q /\ tpc'[q] = "closing"
       /\ \A r \in pcs' \ pcs :
            \E q \in Requests : q[1] = r /\ cleanupLock' = q]_vars

\* C25: for a source that is not download-required and whose extraction
\* returned, resolve takes the first step of the chain that succeeds: with
\* a video-only and an audio-only entry with URLs in requested_formats the
\* result is their URL pair, also when the info has a URL of its own;
\* otherwise the info's url, manifest_url or fragment_base_url; otherwise
\* the URL of the first formats entry that has one; otherwise resolve
\* raises, and it never returns a single-URL result without a URL.
C25_FallbackChainOrder ==
    rOut # NotRun =>
        LET info == rIn.info
            rf == info.requested_formats
            fs == info.formats
            url == rIn.payload.source_url
            m == rOut.media
            Set(u) == u # None /\ u # ""
            EntryUrl(f) ==
                IF Set(f.url) THEN f.url
                ELSE IF Set(f.manifest_url) THEN f.manifest_url
                ELSE f.fragment_base_url
            Videos == {i \in DOMAIN rf :
                          /\ rf[i].vcodec # "none" /\ rf[i].acodec = "none"
                          /\ Set(EntryUrl(rf[i]))}
            Audios == {i \in DOMAIN rf :
                          /\ rf[i].acodec # "none" /\ rf[i].vcodec = "none"
                          /\ Set(EntryUrl(rf[i]))}
            Direct ==
                IF Set(info.url) THEN info.url
                ELSE IF Set(info.manifest_url) THEN info.manifest_url
                ELSE info.fragment_base_url
            WithUrl == {i \in DOMAIN fs : Set(EntryUrl(fs[i]))}
            Single(u) ==
                /\ rOut.ok
                /\ m.playback_url = u
                /\ m.video_url = None /\ m.audio_url = None
                /\ m.file_path = None
        IN  (/\ ~Contains(url, "nicovideo.jp")
             /\ ~Contains(url, "nico.ms")
             /\ rIn.env.extract = "ok")
              => /\ IF Videos # {} /\ Audios # {}
                    THEN /\ rOut.ok
                         /\ \E i \in Videos : m.video_url = EntryUrl(rf[i])
                         /\ \E j \in Audios : m.audio_url = EntryUrl(rf[j])
                         /\ m.file_path = None
                    ELSE IF Set(Direct) THEN Single(Direct)
                    ELSE IF WithUrl # {}
                    THEN Single(EntryUrl(fs[CHOOSE i \in WithUrl :
                                               \A j \in WithUrl : i <= j]))
                    ELSE ~rOut.ok /\ rOut.error = "RuntimeError"
                 /\ rOut.ok => (Set(m.playback_url) \/ Set(m.video_url))

\* A separated pair was returned although the info has a URL of its own and
\* formats has a combined entry.
C25_Witness ==
    /\ rOut.ok
    /\ rIn.payload.source_url = "https://example.com/v"
    /\ rIn.info.url = "u"
    /\ Len(rIn.info.requested_formats) = 2
    /\ Len(rIn.info.formats) = 1 /\ rIn.info.formats[1].url = "c"
    /\ rOut.media.video_url = "v" /\ rOut.media.audio_url = "a"
    /\ rOut.media.playback_url = ""

\* C26: when the formats scan decides (source not download-required,
\* extraction returned, no separated pair, no URL on the info itself) and
\* formats holds both a video-only or audio-only entry with a URL and a
\* combined entry with a URL, the result is the URL of a combined entry,
\* whatever the order of the entries.
C26_ScanPrefersCombined ==
    rOut # NotRun =>
        LET info == rIn.info
            rf == info.requested_formats
            fs == info.formats
            url == rIn.payload.source_url
            Set(u) == u # None /\ u # ""
            EntryUrl(f) ==
                IF Set(f.url) THEN f.url
                ELSE IF Set(f.manifest_url) THEN f.manifest_url
                ELSE f.fragment_base_url
            IsCombined(f) == f.vcodec # "none" /\ f.acodec # "none"
            Videos == {i \in DOMAIN rf :
                          /\ rf[i].vcodec # "none" /\ rf[i].acodec = "none"
                          /\ Set(EntryUrl(rf[i]))}
            Audios == {i \in DOMAIN rf :
                          /\ rf[i].acodec # "none" /\ rf[i].vcodec = "none"
                          /\ Set(EntryUrl(rf[i]))}
            CombinedWithUrl ==
                {i \in DOMAIN fs : IsCombined(fs[i]) /\ Set(EntryUrl(fs[i]))}
            PartialWithUrl ==
                {i \in DOMAIN fs : ~IsCombined(fs[i]) /\ Set(EntryUrl(fs[i]))}
        IN  (/\ ~Contains(url, "nicovideo.jp")
             /\ ~Contains(url, "nico.ms")
             /\ rIn.env.extract = "ok"
             /\ ~(Videos # {} /\ Audios # {})
             /\ ~Set(info.url) /\ ~Set(info.manifest_url)
             /\ ~Set(info.fragment_base_url)
             /\ CombinedWithUrl # {} /\ PartialWithUrl # {})
              => /\ rOut.ok
                 /\ \E i \in CombinedWithUrl :
                       rOut.media.playback_url = EntryUrl(fs[i])

\* C27: for a nicovideo.jp or nico.ms source resolve returns the downloaded
\* file (file_path set, no playback, video or audio URL) when extraction and
\* download both succeed, and raises otherwise, whatever URLs the info, its
\* requested_formats and its formats offer.
C27_DownloadSiteNeverFallsBack ==
    rOut # NotRun =>
        LET url == rIn.payload.source_url
            m == rOut.media
        IN  (url = "https://www.nicovideo.jp/watch/sm9"
                \/ url = "https://nico.ms/sm9")
              => IF rIn.env.extract = "ok" /\ rIn.env.download # "raise"
                 THEN /\ rOut.ok
                      /\ m.file_path = rIn.env.download
                      /\ m.playback_url = ""
                      /\ m.video_url = None /\ m.audio_url = None
                 ELSE /\ ~rOut.ok
                      /\ rOut.error = "RuntimeError"
                      /\ m.file_path = None /\ m.playback_url = None
                      /\ m.video_url = None

\* The download of a nico.ms source failed although the info offers its own
\* URL, a separated pair and a formats entry: resolve raised.
C27_Witness ==
    /\ rOut.error = "RuntimeError" /\ ~rOut.ok
    /\ rIn.payload.source_url = "https://nico.ms/sm9"
    /\ rIn.env.extract = "ok" /\ rIn.env.download = "raise"
    /\ rIn.info.url = "u"
    /\ Len(rIn.info.requested_formats) = 2
    /\ rIn.info.requested_formats[1].url = "v"
    /\ rIn.info.requested_formats[2].url = "a"
    /\ Len(rIn.info.formats) = 1 /\ rIn.info.formats[1].url = "c"

\* C28: whenever resolve returns (file-path, dual-URL or single-URL
\* result) the title of the result is the caller's title when the payload
\* has one, else the title of the backend info, else unset.
C28_TitlePrecedence ==
    (rOut # NotRun /\ rOut.ok) =>
        rOut.media.title =
            IF rIn.payload.title # None /\ rIn.payload.title # ""
            THEN rIn.payload.title
            ELSE IF rIn.info.title # None THEN rIn.info.title
            ELSE None

\* A dual-URL result carries the caller's title "T" although the backend
\* reported the title "I".
C28_Witness ==
    /\ rOut.ok
    /\ rIn.payload.title = "T" /\ rIn.info.title = "I"
    /\ rOut.media.video_url = "v" /\ rOut.media.audio_url = "a"
    /\ rOut.media.title = "T"

\* ------------------------------------------------------------------------
\* Properties of the WHIP session lifecycle
\* ------------------------------------------------------------------------

\* C21: an id leaves the active-session map only in a step of a teardown
\* request for that id, and such a request is started only by the except
\* block of its handle_offer, by DELETE on it, or by an ICE state change to
\* failed, closed or disconnected; an ICE state change to any other state
\* changes neither the map nor a connection nor any request; an ICE change
\* to one of the three states does start a teardown request; and a teardown
\* request whose body runs while the id is still in the map removes the id
\* and closes its connection.
C21_TeardownTriggers ==
    [][/\ \A r \in pcs \ pcs' :
            \E q \in Requests :
                /\ q[1] = r
                /\ q[2] \in {"negotiation", "ice", "delete"}
                /\ tpc[q] \in {"idle", "wait"} /\ tpc'[q] = "closing"
       /\ \A r \in Sessions :
            (tpc[<<r, "ice">>] = "idle" /\ tpc'[<<r, "ice">>] # "idle")
               => /\ ice'[1] = r
                  /\ ice'[2] \in {"failed", "closed", "disconnected"}
       /\ \A r \in Sessions :
            (tpc[<<r, "negotiation">>] = "idle"
                /\ tpc'[<<r, "negotiation">>] # "idle")
               => /\ hpc[r] \in {"setRemoteDescription", "createAnswer",
                                 "setLocalDescription"}
                  /\ hpc'[r] = "cleanup"
       /\ (ice'[1] # 0 /\ ice'[2] \notin {"failed", "closed", "disconnected"})
            => /\ pcs' = pcs /\ conn' = conn /\ closes' = closes
               /\ tpc' = tpc /\ cleanupLock' = cleanupLock
               /\ cleanupWaiters' = cleanupWaiters
       /\ (ice'[1] # 0 /\ ice'[2] \in {"failed", "closed", "disconnected"})
            => tpc'[<<ice'[1], "ice">>] # "idle"
       /\ \A q \in Requests :
            (/\ tpc[q] \in {"idle", "wait"}
             /\ tpc'[q] \in {"closing", "done"}
             /\ q[1] \in pcs)
               => /\ pcs' = pcs \ {q[1]}
                  /\ closes'[q[1]] = closes[q[1]] + 1
                  /\ tpc'[q] = "closing"
       /\ \A q \in Requests :
            (tpc[q] = "closing" /\ tpc'[q] # "closing")
               => conn'[q[1]] = "closed"]_vars

\* An ICE change to disconnected has removed session 1 and closes its
\* connection, while session 2 is in the map.
C21_Witness ==
    /\ ice = <<1, "disconnected">>
    /\ tpc[<<1, "ice">>] = "closing"
    /\ 1 \notin pcs /\ closes[1] = 1
    /\ 2 \in pcs

\* C22: when on_track runs for a video track exactly one task starts
\* handle_whip_track for that track (without a title), nothing is added to
\* the blackhole, and the attach call that later succeeds carries that track
\* and moves the status to WHIP; when it runs for a track of another kind no
\* StreamManager call is started and status, manager tasks and the
\* active-session map stay as they were; no handle_whip_track starts
\* without a video track having arrived.
C22_VideoTrackRouted ==
    [][/\ \A r \in Sessions :
            (<<r, "v0">> \in delivered' \ delivered)
               => /\ \E t \in Tasks :
                       /\ cmd[t].op = "none"
                       /\ cmd'[t].op = "handle_whip_track"
                       /\ cmd'[t].target = "v0" /\ cmd'[t].title = None
                       /\ pc'[t] \in {"transport", "wait"}
                       /\ \A u \in Tasks \ {t} :
                            cmd'[u] = cmd[u] /\ pc'[u] = pc[u]
                                /\ call'[u] = call[u]
                  /\ sunk' = sunk /\ pcs' = pcs /\ status' = status
       /\ \A r \in Sessions :
            (<<r, "a0">> \in delivered' \ delivered)
               => /\ cmd' = cmd /\ pc' = pc /\ call' = call
                  /\ status' = status /\ lock' = lock /\ waiters' = waiters
                  /\ pcs' = pcs /\ conn' = conn
                  /\ sunk' = sunk \cup {<<r, "a0">>}
       /\ \A t \in Tasks :
            (cmd[t].op = "none" /\ cmd'[t].op = "handle_whip_track")
               => \E r \in Sessions : delivered' = delivered \cup {<<r, "v0">>}
                                       /\ <<r, "v0">> \notin delivered
       /\ \A t \in Tasks :
            (/\ cmd[t].op = "handle_whip_track"
             /\ pc[t] = "transport" /\ pc'[t] = "done" /\ result'[t] = "ok")
               => /\ call'[t].op = "attach_webrtc_track"
                  /\ call'[t].url = "v0"
                  /\ status'.stream_type = "WHIP"]_vars

\* On session 1 the audio track went to the blackhole and the video track
\* was attached: the status is WHIP and the session is still in the map.
C22_Witness ==
    /\ <<1, "a0">> \in sunk
    /\ <<1, "v0">> \in delivered /\ <<1, "v0">> \notin sunk
    /\ \E t \in Tasks :
          /\ pc[t] = "done" /\ cmd[t].op = "handle_whip_track"
          /\ call[t].url = "v0" /\ result[t] = "ok"
    /\ status.stream_type = "WHIP" /\ status.title = "Live WHIP Stream"
    /\ 1 \in pcs

\* C23: every handle_offer gets an id that is not in the map and was never
\* used, and adds only that id; a step of a teardown request for one id
\* leaves the map entry, the connection and the close count of every other
\* id as they were; and so does a negotiation step of one session.
C23_SessionsIndependent ==
    [][/\ \A r \in Sessions :
            (hpc[r] = "none" /\ hpc'[r] # "none")
               => /\ r \notin pcs /\ conn[r] = "none" /\ closes[r] = 0
                  /\ pcs' = pcs \cup {r}
                  /\ \A o \in Sessions \ {r} :
                       conn'[o] = conn[o] /\ closes'[o] = closes[o]
                          /\ hpc'[o] = hpc[o]
       /\ \A q \in Requests :
            (tpc'[q] # tpc[q])
               => \A o \in Sessions \ {q[1]} :
                     /\ (o \in pcs') = (o \in pcs)
                     /\ conn'[o] = conn[o]
                     /\ closes'[o] = closes[o]
                     /\ hpc'[o] = hpc[o]
       /\ \A r \in Sessions :
            (hpc'[r] # hpc[r])
               => \A o \in Sessions \ {r} :
                     /\ (o \in pcs') = (o \in pcs)
                     /\ conn'[o] = conn[o]
                     /\ closes'[o] = closes[o]]_vars

\* Session 1 was torn down by its own negotiation error while session 2,
\* offered concurrently, is still negotiating with its entry and its open
\* connection.
C23_Witness ==
    /\ hpc[1] = "failed" /\ 1 \notin pcs
    /\ conn[1] = "closed" /\ closes[1] = 1
    /\ hpc[2] = "createAnswer" /\ 2 \in pcs
    /\ conn[2] = "open" /\ closes[2] = 0

\* C30: a teardown request for a session that arrives from the ICE observer
\* while another request is closing that session's connection queues on the
\* teardown lock and leaves the lock with its holder; the closing request
\* then finishes with the connection closed and the lock free, the nested
\* request finishes having found nothing, and every teardown request
\* returns to its caller.
C30_NestedTeardownCompletes ==
    /\ [][\A r \in Sessions, q \in Requests :
            (/\ q[1] = r /\ tpc[q] = "closing"
             /\ tpc[<<r, "ice">>] = "idle" /\ tpc'[<<r, "ice">>] # "idle")
               => /\ tpc'[<<r, "ice">>] = "wait"
                  /\ tpc'[q] = "closing"
                  /\ cleanupLock' = q]_vars
    /\ \A q \in Requests :
          (tpc[q] = "closing")
             ~> (tpc[q] = "done" /\ tres[q] = "closed"
                 /\ cleanupLock = NoRequest)
    /\ \A r \in Sessions, q \in Requests :
          (/\ q[1] = r /\ tpc[q] = "closing"
           /\ tpc[<<r, "ice">>] = "wait")
             ~> (tpc[<<r, "ice">>] = "done" /\ tres[<<r, "ice">>] = "nothing")
    /\ \A q \in Requests : (tpc[q] # "idle") ~> (tpc[q] = "idle")

\* The observer of session 1 has just run for ICE state "closed" and queued
\* its teardown request while the DELETE request is closing the connection.
C30_Witness ==
    /\ tpc[<<1, "delete">>] = "closing"
    /\ cleanupLock = <<1, "delete">>
    /\ ice = <<1, "closed">>
    /\ tpc[<<1, "ice">>] = "wait"

\* C31: at the step in which handle_offer returns the answer and the
\* resource id, the id is in the active-session map and its connection is
\* open, whatever ICE state changes and DELETE requests came in between.
C31_ReturnedIdIsActive ==
    [][\A r \in Sessions :
          (hpc[r] # "returned" /\ hpc'[r] = "returned")
             => (r \in pcs' /\ conn'[r] = "open")]_vars

\* C32: a step of a teardown request, whatever its trigger (ICE failed,
\* closed or disconnected, DELETE, negotiation error), starts no
\* StreamManager command and leaves the status, the manager's lock and its
\* tasks as they were; the status changes only in the step in which a
\* StreamManager command (here stop or handle_whip_track) comes back from
\* the transport.  So a status of WHIP and playing outlives its session.
C32_TeardownLeavesStatus ==
    [][/\ (tpc' # tpc \/ cleanupLock' # cleanupLock
             \/ (\E r \in Sessions : r \in pcs /\ r \notin pcs')
             \/ (\E r \in Sessions : conn[r] = "open" /\ conn'[r] = "closed"))
          => /\ status' = status
             /\ cmd' = cmd /\ call' = call /\ pc' = pc
             /\ lock' = lock /\ waiters' = waiters
       /\ (status' # status)
          => \E t \in Tasks :
                /\ pc[t] = "transport" /\ pc'[t] = "done"
                /\ cmd[t].op \in {"stop", "handle_whip_track"}]_vars

\* The video track of session 1 was attached, the session has been torn
\* down and its connection closed, no command is in flight: the status
\* still says WHIP and playing.
C32_Witness ==
    /\ <<1, "v0">> \in delivered
    /\ conn[1] = "closed" /\ 1 \notin pcs
    /\ \A t \in Tasks : pc[t] = "idle"
    /\ \A q \in Requests : tpc[q] = "idle"
    /\ status.stream_type = "WHIP" /\ status.is_playing

\* ------------------------------------------------------------------------
\* Properties of ServerConfig
\* ------------------------------------------------------------------------

\* C35: a configuration survives the round trip: from_dict(to_dict(c))
\* equals c for the loaded configuration c, also when its extra map is not
\* empty, and a load_config that follows a save_config returns the
\* configuration that was saved, extra keys included.
C35_ConfigRoundTrips ==
    /\ config # NoConfig => from_dict(to_dict(config)) = config
    /\ (cstep = "load" /\ saved # NoConfig) => config = saved

====
